---- MODULE Spec2Model ----
(***************************************************************************)
(* Album thumbnail consistency of AlbumRepository                          *)
(* (server/src/infra/repositories/album.repository.ts).                    *)
(*                                                                         *)
(* The database is modelled by three tables:                               *)
(*   albums.albumThumbnailAssetId   (nullable reference to an asset)       *)
(*   albums_assets_assets           (rows <<albumsId, assetsId>>)          *)
(*   assets.fileCreatedAt                                                  *)
(* and the repository by one action per method that reads or writes them.  *)
(***************************************************************************)
EXTENDS Integers, FiniteSets

\* ------------------------------------------------------------------ bounds

\* Album ids are opaque strings; two albums show every cross-album effect
\* (removeAsset deletes rows of all albums, affected sums over albums).
Albums == {"X", "Y"}

NumAssets == 2

MaxTime == 2

MaxRuns == 2

NULL == 0

Assets == 1..NumAssets

Times == 1..MaxTime

Procs == {"p1", "p2"}

\* ------------------------------------------------------------------- state

VARIABLES
  albumThumbnailAssetId, \* albums."albumThumbnailAssetId", per album id
  albums_assets,         \* table albums_assets_assets: set of <<albumsId, assetsId>>
  fileCreatedAt,         \* assets."fileCreatedAt", per asset id
  lastOp,                \* the repository method that returned last
  arg,                   \* its argument (removeAsset: the asset id)
  ret,                   \* the value it resolved to
  pre,                   \* the tables as the last updateThumbnails found them
  runs,                  \* updateThumbnails calls since the last change by another method
  pass,                  \* overlapping updateThumbnails statements, per session
  runA, runB             \* two executions of updateThumbnails on one snapshot

db == <<albumThumbnailAssetId, albums_assets, fileCreatedAt>>

call == <<lastOp, arg, ret, pre, runs>>

vars == <<albumThumbnailAssetId, albums_assets, fileCreatedAt,
          lastOp, arg, ret, pre, runs, pass, runA, runB>>

NoSnapshot ==
  [thumb |-> [a \in Albums |-> NULL], rows |-> {}, created |-> [x \in Assets |-> NULL]]

Snapshot ==
  [thumb |-> albumThumbnailAssetId, rows |-> albums_assets, created |-> fileCreatedAt]

NoRun == [done |-> FALSE, thumb |-> [a \in Albums |-> NULL]]

IdlePass == [pc |-> "idle", todo |-> {}, affected |-> 0]

\* --------------------------------------------------------- query fragments

\* albumHasAssets: SELECT 1 FROM albums_assets_assets albums_assets
\*                 WHERE "albums"."id" = "albums_assets"."albumsId"
albumHasAssets(rows, a) ==
  \E r \in rows : a = r[1]

albumContainsThumbnailOtherAsset(rows, thumb, a) ==
  \E r \in rows : a = r[1] /\ thumb[a] # r[2]

\* albumContainsThumbnail: albumHasAssets
\*                 AND "albums"."albumThumbnailAssetId" = "albums_assets"."assetsId"
albumContainsThumbnail(rows, thumb, a) ==
  \E r \in rows : a = r[1] /\ thumb[a] = r[2]

WhereAll(rows, thumb, a) ==
  albumHasAssets(rows, a) \/ thumb[a] # NULL

WhereStaleOnly(rows, thumb, a) ==
  thumb[a] # NULL /\ ~albumContainsThumbnail(rows, thumb, a)

\* The WHERE ... OR WHERE ... of getInvalidThumbnail and updateThumbnails.
InvalidThumbnailWhere(rows, thumb, a) ==
  \/ thumb[a] = NULL /\ albumHasAssets(rows, a)
  \/ thumb[a] # NULL /\ ~albumContainsThumbnail(rows, thumb, a)

NewThumbnailOldest(rows, f, a) ==
  {r[2] : r \in {q \in rows : /\ q[1] = a
                              /\ \A o \in rows : o[1] = a => f[q[2]] <= f[o[2]]}}

NewThumbnailAnyAsset(rows, f, a) ==
  {x \in Assets : \A y \in Assets : f[y] <= f[x]}

\* newThumbnail: the rows ORDER BY assets.fileCreatedAt DESC LIMIT 1 may return
\* for album a: every joined row whose fileCreatedAt no other row of the album
\* exceeds (SQL fixes no order among equal sort keys); no row at all when the
\* album has none.
NewThumbnail(rows, f, a) ==
  {r[2] : r \in {q \in rows : /\ q[1] = a
                              /\ \A o \in rows : o[1] = a => f[o[2]] <= f[q[2]]}}

NewThumbnailValueAnyAlbum(rows, f, a) ==
  IF rows = {} THEN {NULL}
  ELSE {r[2] : r \in {q \in rows : \A o \in rows : f[o[2]] <= f[q[2]]}}

\* The value SET assigns: the scalar subquery, NULL when it returns no row.
NewThumbnailValue(rows, f, a) ==
  IF NewThumbnail(rows, f, a) = {} THEN {NULL} ELSE NewThumbnail(rows, f, a)

UpdateAlbumsNoWhere(rows, thumb, f) ==
  {t \in [Albums -> Assets \cup {NULL}] :
     \A a \in Albums : t[a] \in NewThumbnailValue(rows, f, a)}

\* The tables the single UPDATE statement may leave: every row selected by
\* the WHERE gets the subquery's value, every other row is not written.
UpdateAlbums(rows, thumb, f) ==
  {t \in [Albums -> Assets \cup {NULL}] :
     \A a \in Albums :
       IF InvalidThumbnailWhere(rows, thumb, a)
         THEN t[a] \in NewThumbnailValue(rows, f, a)
         ELSE t[a] = thumb[a]}

\* result.affected: the number of rows the UPDATE matched.
Affected(rows, thumb) ==
  Cardinality({a \in Albums : InvalidThumbnailWhere(rows, thumb, a)})

GetInvalidThumbnailResult(rows, thumb) ==
  {a \in Albums : InvalidThumbnailWhere(rows, thumb, a)}

\* -------------------------------------------------------------------- Init

Init ==
  /\ albumThumbnailAssetId \in [Albums -> Assets \cup {NULL}]
  /\ albums_assets \in SUBSET (Albums \X Assets)
  /\ fileCreatedAt \in [Assets -> Times]
  /\ lastOp = "init"
  /\ arg = NULL
  /\ ret = NULL
  /\ pre = NoSnapshot
  /\ runs = 0
  /\ pass = [p \in Procs |-> IdlePass]
  /\ runA = NoRun
  /\ runB = NoRun

\* ----------------------------------------------------- repository methods

getInvalidThumbnail ==
  /\ lastOp' = "getInvalidThumbnail"
  /\ arg' = NULL
  /\ ret' = GetInvalidThumbnailResult(albums_assets, albumThumbnailAssetId)
  /\ UNCHANGED <<db, pre, runs, pass, runA, runB>>

removeAssetClearsThumbnail(assetId) ==
  /\ albums_assets' = {r \in albums_assets : r[2] # assetId}
  /\ albumThumbnailAssetId' =
       [a \in Albums |-> IF albumThumbnailAssetId[a] = assetId
                           THEN NULL ELSE albumThumbnailAssetId[a]]
  /\ lastOp' = "removeAsset"
  /\ arg' = assetId
  /\ ret' = NULL
  /\ pre' = NoSnapshot
  /\ runs' = 0
  /\ UNCHANGED <<fileCreatedAt, pass, runA, runB>>

\* DELETE FROM albums_assets_assets WHERE "assetsId" = :assetId
removeAsset(assetId) ==
  /\ albums_assets' = {r \in albums_assets : r[2] # assetId}
  /\ lastOp' = "removeAsset"
  /\ arg' = assetId
  /\ ret' = NULL
  /\ pre' = NoSnapshot
  /\ runs' = 0
  /\ UNCHANGED <<albumThumbnailAssetId, fileCreatedAt, pass, runA, runB>>

\* update(album) -> save(album): repository.save writes the given album's
\* thumbnail column and replaces its rows of the join table by album.assets.
update(id, assets, thumbnail) ==
  /\ albumThumbnailAssetId' = [albumThumbnailAssetId EXCEPT ![id] = thumbnail]
  /\ albums_assets' = {r \in albums_assets : r[1] # id} \cup ({id} \X assets)
  /\ lastOp' = "update"
  /\ arg' = NULL
  /\ ret' = NULL
  /\ pre' = NoSnapshot
  /\ runs' = 0
  /\ UNCHANGED <<fileCreatedAt, pass, runA, runB>>

updateThumbnailsDeletesRows ==
  /\ albumThumbnailAssetId' \in UpdateAlbums(albums_assets, albumThumbnailAssetId, fileCreatedAt)
  /\ albums_assets' = {r \in albums_assets :
                         InvalidThumbnailWhere(albums_assets, albumThumbnailAssetId, r[1]) =>
                           r[2] = albumThumbnailAssetId'[r[1]]}
  /\ lastOp' = "updateThumbnails"
  /\ arg' = NULL
  /\ ret' = Affected(albums_assets, albumThumbnailAssetId)
  /\ pre' = Snapshot
  /\ runs' = IF runs < MaxRuns THEN runs + 1 ELSE runs
  /\ UNCHANGED <<fileCreatedAt, pass, runA, runB>>

\* updateThumbnails, run alone: one UPDATE statement, then return result.affected.
updateThumbnails ==
  /\ albumThumbnailAssetId' \in UpdateAlbums(albums_assets, albumThumbnailAssetId, fileCreatedAt)
  /\ lastOp' = "updateThumbnails"
  /\ arg' = NULL
  /\ ret' = Affected(albums_assets, albumThumbnailAssetId)
  /\ pre' = Snapshot
  /\ runs' = IF runs < MaxRuns THEN runs + 1 ELSE runs
  /\ UNCHANGED <<albums_assets, fileCreatedAt, pass, runA, runB>>

Members(rows, a) == {r[2] : r \in {q \in rows : q[1] = a}}

Next ==
  \/ getInvalidThumbnail
  \/ \E assetId \in Assets : removeAsset(assetId)
  \/ \E id \in Albums, assets \in SUBSET Assets :
       update(id, assets, albumThumbnailAssetId[id])
  \/ \E id \in Albums, thumbnail \in Assets \cup {NULL} :
       update(id, Members(albums_assets, id), thumbnail)
  \/ updateThumbnails

Spec == Init /\ [][Next]_vars

\* ------------------------------------- overlapping updateThumbnails calls
\* Two sessions run the UPDATE statement at once. The statement selects its
\* rows when it starts and writes them one at a time under a row lock; a row
\* another statement has written meanwhile is tested against the WHERE again
\* before it is written (READ COMMITTED). No other method runs meanwhile.

beginUpdate(p) ==
  /\ pass[p].pc = "idle"
  /\ pass' = [pass EXCEPT ![p] =
       [pc |-> "update",
        todo |-> {a \in Albums : InvalidThumbnailWhere(albums_assets, albumThumbnailAssetId, a)},
        affected |-> 0]]
  /\ UNCHANGED <<db, call, runA, runB>>

updateRow(p, a) ==
  /\ pass[p].pc = "update"
  /\ a \in pass[p].todo
  /\ IF InvalidThumbnailWhere(albums_assets, albumThumbnailAssetId, a)
       THEN /\ \E t \in NewThumbnailValue(albums_assets, fileCreatedAt, a) :
                 albumThumbnailAssetId' = [albumThumbnailAssetId EXCEPT ![a] = t]
            /\ pass' = [pass EXCEPT ![p].todo = @ \ {a}, ![p].affected = @ + 1]
       ELSE /\ UNCHANGED albumThumbnailAssetId
            /\ pass' = [pass EXCEPT ![p].todo = @ \ {a}]
  /\ UNCHANGED <<albums_assets, fileCreatedAt, call, runA, runB>>

endUpdate(p) ==
  /\ pass[p].pc = "update"
  /\ pass[p].todo = {}
  /\ pass' = [pass EXCEPT ![p].pc = "done"]
  /\ UNCHANGED <<db, call, runA, runB>>

NextConc ==
  \E p \in Procs :
    \/ beginUpdate(p)
    \/ \E a \in Albums : updateRow(p, a)
    \/ endUpdate(p)

SpecConc == Init /\ [][NextConc]_vars

\* ------------------------------------------ two runs on the same snapshot
\* updateThumbnails executed twice on databases that hold the same albums,
\* rows and fileCreatedAt; each run's resulting thumbnail column is kept.

firstRun ==
  /\ ~runA.done
  /\ \E t \in UpdateAlbums(albums_assets, albumThumbnailAssetId, fileCreatedAt) :
       runA' = [done |-> TRUE, thumb |-> t]
  /\ UNCHANGED <<db, call, pass, runB>>

secondRun ==
  /\ ~runB.done
  /\ \E t \in UpdateAlbums(albums_assets, albumThumbnailAssetId, fileCreatedAt) :
       runB' = [done |-> TRUE, thumb |-> t]
  /\ UNCHANGED <<db, call, pass, runA>>

NextDet == firstRun \/ secondRun

SpecDet == Init /\ [][NextDet]_vars

\* ------------------------------------------------------------- properties

\* The thumbnail invariant of one album: no thumbnail when the album has no
\* member assets, otherwise a thumbnail that is a member of the album.
ThumbnailInvariant(rows, thumb, a) ==
  IF Members(rows, a) = {} THEN thumb[a] = NULL ELSE thumb[a] \in Members(rows, a)

Violating(rows, thumb) == {a \in Albums : ~ThumbnailInvariant(rows, thumb, a)}

AfterUpdateThumbnails == lastOp = "updateThumbnails"

\* C1: once updateThumbnails has completed and no other method has changed
\* the tables since, every album satisfies the thumbnail invariant and
\* getInvalidThumbnail returns the empty set.
C1_InvariantRestored ==
  runs >= 1 =>
    /\ \A a \in Albums : ThumbnailInvariant(albums_assets, albumThumbnailAssetId, a)
    /\ lastOp = "getInvalidThumbnail" => ret = {}

C1_Witness ==
  /\ runs = 1
  /\ lastOp = "getInvalidThumbnail"
  /\ ret = {}
  /\ Violating(pre.rows, pre.thumb) = Albums
  /\ \E a \in Albums : Members(pre.rows, a) = {}
  /\ \E a \in Albums : Members(pre.rows, a) # {}

\* C2: a second updateThumbnails with no change in between returns 0 and
\* leaves every album's thumbnail as the first call left it.
C2_SecondRunZero ==
  (AfterUpdateThumbnails /\ runs >= 2) =>
    /\ ret = 0
    /\ albumThumbnailAssetId = pre.thumb

C2_Witness ==
  /\ AfterUpdateThumbnails
  /\ runs = 2
  /\ ret = 0
  /\ \A a \in Albums : albumThumbnailAssetId[a] # NULL

\* C3: updateThumbnails leaves the thumbnail of every album that satisfied
\* the invariant as it was, and counts no such album as corrected.
C3_NoOverCorrection ==
  AfterUpdateThumbnails =>
    /\ \A a \in Albums :
         ThumbnailInvariant(pre.rows, pre.thumb, a) => albumThumbnailAssetId[a] = pre.thumb[a]
    /\ ret <= Cardinality(Violating(pre.rows, pre.thumb))

C3_Witness ==
  /\ AfterUpdateThumbnails
  /\ ret = 1
  /\ \E a \in Albums :
       /\ ThumbnailInvariant(pre.rows, pre.thumb, a)
       /\ Cardinality(Members(pre.rows, a)) >= 2
       /\ \A x, y \in Members(pre.rows, a) : pre.created[x] = pre.created[y]
       /\ albumThumbnailAssetId[a] = pre.thumb[a]

C5_NewestMember ==
  AfterUpdateThumbnails =>
    \A a \in Violating(pre.rows, pre.thumb) :
      IF Members(pre.rows, a) = {}
        THEN albumThumbnailAssetId[a] = NULL
        ELSE /\ albumThumbnailAssetId[a] \in Members(pre.rows, a)
             /\ \A y \in Members(pre.rows, a) :
                  pre.created[y] <= pre.created[albumThumbnailAssetId[a]]

C5_Witness ==
  /\ AfterUpdateThumbnails
  /\ \E a \in Violating(pre.rows, pre.thumb) :
       \E y \in Members(pre.rows, a) :
         pre.created[y] < pre.created[albumThumbnailAssetId[a]]
  /\ \E b \in Violating(pre.rows, pre.thumb) :
       Members(pre.rows, b) = {} /\ albumThumbnailAssetId[b] = NULL

\* C6: updateThumbnails writes the thumbnail column only: the albums, the
\* assets with their fileCreatedAt and the rows of albums_assets_assets are
\* after the call what they were before it.
C6_OnlyThumbnailWritten ==
  AfterUpdateThumbnails =>
    /\ albums_assets = pre.rows
    /\ fileCreatedAt = pre.created
    /\ DOMAIN albumThumbnailAssetId = DOMAIN pre.thumb

C6_Witness ==
  /\ AfterUpdateThumbnails
  /\ ret >= 1
  /\ \E a \in Violating(pre.rows, pre.thumb) :
       Cardinality(Members(albums_assets, a)) >= 2

\* C7: the number updateThumbnails returns is the number of albums whose
\* thumbnail differs from its value before the call, and every album the
\* WHERE selected has changed value.
C7_AffectedIsChanged ==
  AfterUpdateThumbnails =>
    /\ ret \in Nat
    /\ ret = Cardinality({a \in Albums : albumThumbnailAssetId[a] # pre.thumb[a]})
    /\ \A a \in Albums :
         InvalidThumbnailWhere(pre.rows, pre.thumb, a) => albumThumbnailAssetId[a] # pre.thumb[a]

C7_Witness ==
  /\ AfterUpdateThumbnails
  /\ ret = 1
  /\ \E a \in Albums : pre.thumb[a] # NULL /\ albumThumbnailAssetId[a] # pre.thumb[a]
  /\ \E b \in Albums : pre.thumb[b] # NULL /\ albumThumbnailAssetId[b] = pre.thumb[b]

AllDone == \A p \in Procs : pass[p].pc = "done"

\* C8: with updateThumbnails calls overlapping, no step makes an album that
\* satisfies the invariant violate it, and when all of them have finished
\* every album satisfies it.
C8_InterleavedPassesConverge ==
  [][/\ \A a \in Albums :
          ThumbnailInvariant(albums_assets, albumThumbnailAssetId, a) =>
            ThumbnailInvariant(albums_assets', albumThumbnailAssetId', a)
     /\ AllDone' => Violating(albums_assets', albumThumbnailAssetId') = {}]_vars

C8_Witness ==
  /\ AllDone
  /\ \A p \in Procs : pass[p].affected = 1
  /\ Violating(albums_assets, albumThumbnailAssetId) = {}

\* C9: two runs of updateThumbnails on the same albums, rows and
\* fileCreatedAt leave the same thumbnail in every album.
C9_SameSnapshotSameThumbnail ==
  (runA.done /\ runB.done) => runA.thumb = runB.thumb

\* C10: removeAsset deletes the asset's rows of every album and nothing else;
\* an album whose thumbnail it was then has a thumbnail outside the album,
\* keeps it through getInvalidThumbnail and removeAsset, and satisfies the
\* invariant again after the next updateThumbnails.
C10_RemoveAssetLeavesStaleThumbnail ==
  [][/\ lastOp' = "removeAsset" =>
          /\ albumThumbnailAssetId' = albumThumbnailAssetId
          /\ fileCreatedAt' = fileCreatedAt
          /\ albums_assets' = {r \in albums_assets : r[2] # arg'}
          /\ \A a \in Albums :
               albumThumbnailAssetId[a] = arg' =>
                 ~ThumbnailInvariant(albums_assets', albumThumbnailAssetId', a)
     /\ lastOp' \in {"removeAsset", "getInvalidThumbnail"} =>
          \A a \in Albums :
            (albumThumbnailAssetId[a] # NULL /\ <<a, albumThumbnailAssetId[a]>> \notin albums_assets) =>
              /\ albumThumbnailAssetId'[a] = albumThumbnailAssetId[a]
              /\ ~ThumbnailInvariant(albums_assets', albumThumbnailAssetId', a)
     /\ lastOp' = "updateThumbnails" =>
          \A a \in Albums :
            (albumThumbnailAssetId[a] # NULL /\ <<a, albumThumbnailAssetId[a]>> \notin albums_assets) =>
              ThumbnailInvariant(albums_assets', albumThumbnailAssetId', a)]_vars

C10_Witness ==
  /\ lastOp = "removeAsset"
  /\ \A a \in Albums :
       /\ albumThumbnailAssetId[a] = arg
       /\ Members(albums_assets, a) # {}
       /\ ~ThumbnailInvariant(albums_assets, albumThumbnailAssetId, a)

====
